---------------------------- MODULE Spec2Model ----------------------------
(***************************************************************************)
(* Model of the bdix-list connectivity tester: the four entry scripts      *)
(* (list.ts runAdvancedPingTest, fastCheck, listUpUrls, test-ping.ts       *)
(* testPing) and the probe functions they call.                            *)
(*                                                                         *)
(* Numbers: latencies and durations are integers (milliseconds).           *)
(* A JavaScript division a / b is kept exact as the pair [num, den]; 0/0   *)
(* is NaN.  Optional fields of a JavaScript object are fields a record     *)
(* has or has not ("error" \in DOMAIN r).                                  *)
(***************************************************************************)
EXTENDS Integers, Sequences, FiniteSets, TLC

(* ------------------------------ bounds -------------------------------- *)

\* longest catalog (bdix-urls.json) explored
MaxCatalog == 3
\* largest config.batchSize explored
MaxBatchSize == 2

(* ------------------------------ numbers ------------------------------- *)

\* a / b in JavaScript, kept exact
Div(a, b) == [num |-> a, den |-> b]

IsNaN(r) == r.den = 0 /\ r.num = 0

\* r is a number and equals the integer n
RatIs(r, n) == r.den # 0 /\ r.num = n * r.den

SeqSum(s) ==
    LET f[k \in 0..Len(s)] == IF k = 0 THEN 0 ELSE f[k - 1] + s[k]
    IN f[Len(s)]

SeqToSet(s) == {s[k] : k \in 1..Len(s)}

SetMin(S) == CHOOSE x \in S : \A y \in S : x <= y

SetMax(S) == CHOOSE x \in S : \A y \in S : y <= x

\* Array.prototype.filter: keep[k] is what the callback returns for s[k]
Filter(s, keep) ==
    LET f[k \in 0..Len(s)] ==
            IF k = 0 THEN <<>>
            ELSE IF keep[k] THEN Append(f[k - 1], s[k]) ELSE f[k - 1]
    IN f[Len(s)]

\* slice with its end taken inclusive (what C3 rules out)
SliceInclusive(s, from, to) ==
    LET hi == IF to + 1 < Len(s) THEN to + 1 ELSE Len(s)
    IN  IF from >= hi THEN <<>> ELSE [k \in 1..(hi - from) |-> s[from + k]]

\* Array.prototype.slice(from, to), 0-based, to exclusive and clamped
Slice(s, from, to) ==
    LET hi == IF to < Len(s) THEN to ELSE Len(s)
    IN  IF from >= hi THEN <<>> ELSE [k \in 1..(hi - from) |-> s[from + k]]

(* ------------------------------ catalog ------------------------------- *)

\* An address is the string scheme "://" host [":" port]; scheme "" is a
\* string with no scheme at all, port -1 a string with no port.
UrlA == [scheme |-> "http", host |-> "a.example", port |-> -1]
UrlB == [scheme |-> "http", host |-> "b.example", port |-> -1]
UrlS == [scheme |-> "https", host |-> "s.example", port |-> 8443]
\* new URL() rejects the port, the fallback pattern still matches
UrlBadPort == [scheme |-> "http", host |-> "c.example", port |-> 99999]
\* no scheme: new URL() throws and the fallback pattern does not match
UrlBare == [scheme |-> "", host |-> "d.example", port |-> -1]

EntryA == [name |-> "A", url |-> UrlA, type |-> "FTP"]
EntryB == [name |-> "B", url |-> UrlA, type |-> "TV"]
EntryC == [name |-> "C", url |-> UrlB, type |-> "FTP"]
EntryD == [name |-> "D", url |-> UrlBare, type |-> "UNKNOWN"]
EntryE == [name |-> "E", url |-> UrlBadPort, type |-> "UNKNOWN"]
EntryS == [name |-> "S", url |-> UrlS, type |-> "TV"]

\* the entries a catalog of the run-level specification is written from
CatalogEntries == {EntryA, EntryB, EntryC, EntryD}

SeqsUpTo(S, n) == UNION {[1..k -> S] : k \in 0..n}

Catalogs == SeqsUpTo(CatalogEntries, MaxCatalog)

(* ---------------------------- deduplication --------------------------- *)

\* Map.prototype.set on an insertion-ordered list of <<key, value>>: an
\* existing key keeps its place and takes the new value
MapSet(m, key, value) ==
    IF \E k \in 1..Len(m) : m[k][1] = key
    THEN [k \in 1..Len(m) |-> IF m[k][1] = key THEN <<key, value>> ELSE m[k]]
    ELSE Append(m, <<key, value>>)

\* new Map(pairs)
NewMap(pairs) ==
    LET f[k \in 0..Len(pairs)] ==
            IF k = 0 THEN <<>> ELSE MapSet(f[k - 1], pairs[k][1], pairs[k][2])
    IN f[Len(pairs)]

\* Array.from(new Map(urls.map(item => [item.url, item])).values())
DedupeMap(urls) ==
    LET m == NewMap([k \in 1..Len(urls) |-> <<urls[k].url, urls[k]>>])
    IN  [k \in 1..Len(m) |-> m[k][2]]

\* a filter callback that forgets a url on its second sight (what C2 rules out)
FirstSeenToggle(urls, k) ==
    Cardinality({j \in 1..(k - 1) : urls[j].url = urls[k].url}) % 2 = 0

\* the filter callback of fastCheck and listUpUrls: true for an item whose
\* url no earlier item carries (seen holds the urls of the earlier items)
FirstSeen(urls, k) == \A j \in 1..(k - 1) : urls[j].url # urls[k].url

\* urls.filter(item => { if (seen.has(item.url)) return false; ... })
DedupeFilter(urls) ==
    Filter(urls, [k \in 1..Len(urls) |-> FirstSeen(urls, k)])

\* a script that probes the catalog as it is (what C12 rules out)
DedupeNone(variant, urls) == urls

\* the dedupe step of a variant
Dedupe(variant, urls) ==
    IF variant = "advanced" THEN DedupeMap(urls) ELSE DedupeFilter(urls)


(* ------------------------- program constants -------------------------- *)

\* config.timeout of runAdvancedPingTest, milliseconds
AdvTimeout == 5000
\* config.interval of runAdvancedPingTest, milliseconds
AdvInterval == 300
\* the delay between two batches, milliseconds
BatchDelay == 1000
\* the timeout quickPing and checkUrl hand to ping, milliseconds (2 s)
QuickTimeout == 2000
\* AbortSignal.timeout of each fetch of pingUrl, milliseconds
FetchTimeout == 5000
\* testPing probes the first TestLimit catalog entries
TestLimit == 20
\* config.attempts of runAdvancedPingTest
RunAttempts == 3

\* the PingConfig of a run: attempts and batchSize are the inputs
Config(attempts, batchSize) ==
    [attempts |-> attempts, timeout |-> AdvTimeout, interval |-> AdvInterval,
     batchSize |-> batchSize, enableDnsLookup |-> TRUE]

(* --------------------------- the network ------------------------------ *)

\* What one ping.promise.probe call can do.  dur is the wall-clock time
\* the call takes; a call that times out takes at least the timeout.
\*   alive    a reply came: result.alive, result.time a number
\*   dead     the host answered unreachable: not alive, time 'unknown'
\*   timeout  no reply within the timeout: not alive, time 'unknown'
\*   throw    the promise rejects
\* known: result.time is a number (time), not 'unknown'
PingAlive(t) == [kind |-> "alive", known |-> TRUE, time |-> t, dur |-> t + 1]
PingAliveNoTime == [kind |-> "alive", known |-> FALSE, time |-> 0, dur |-> 2]
PingDead == [kind |-> "dead", known |-> FALSE, time |-> 0, dur |-> 1]
PingTimeout(timeout, late) ==
    [kind |-> "timeout", known |-> FALSE, time |-> 0, dur |-> timeout + late]
PingThrow == [kind |-> "throw", known |-> FALSE, time |-> 0, dur |-> 0]

\* what dns.lookup can do
DnsOk == [ok |-> TRUE, ip |-> "10.0.0.1", dur |-> 3]
DnsFail == [ok |-> FALSE, ip |-> "", dur |-> 4]

\* What one fetch can do: a response (ok or not), a rejection (transport
\* error), or the abort the timeout signal raises.
FetchOk == [kind |-> "response", ok |-> TRUE, status |-> 200, dur |-> 30]
FetchNotOk == [kind |-> "response", ok |-> FALSE, status |-> 404, dur |-> 30]
FetchThrow == [kind |-> "throw", ok |-> FALSE, status |-> 0, dur |-> 5]
FetchTimedOut == [kind |-> "timeout", ok |-> FALSE, status |-> 0, dur |-> FetchTimeout]

(* ------------------------- address extraction ------------------------- *)

\* new URL(urlString) returns
UrlParses(u) == u.scheme \in {"http", "https"} /\ u.host # "" /\ u.port <= 65535

\* urlString.match(/^https?:\/\/([^:/]+)(?::(\d+))?/) with a first group
FallbackMatches(u) == u.scheme \in {"http", "https"} /\ u.host # ""

DefaultPort(u) == IF u.scheme = "https" THEN 443 ELSE 80

\* the whole address string, where it is used as a host name: an address
\* without a scheme (and so without a port) is its host text
WholeString(u) == u.host

\* extractHostAndPort falling back to the whole string, as extractHostname
\* does, instead of throwing (what C7 rules out for the advanced script)
ExtractHostAndPortLenient(u) ==
    [threw |-> FALSE, hostname |-> u.host,
     port |-> IF u.port >= 0 THEN u.port ELSE DefaultPort(u),
     isHttps |-> u.scheme = "https"]

\* extractHostAndPort of list.ts; threw stands for the Error it throws
ExtractHostAndPort(u) ==
    IF UrlParses(u)
    THEN [threw |-> FALSE, hostname |-> u.host,
          port |-> IF u.port >= 0 THEN u.port ELSE DefaultPort(u),
          isHttps |-> u.scheme = "https"]
    ELSE IF FallbackMatches(u)
    THEN [threw |-> FALSE, hostname |-> u.host,
          port |-> IF u.port >= 0 THEN u.port ELSE DefaultPort(u),
          isHttps |-> u.scheme = "https"]
    ELSE [threw |-> TRUE, message |-> "Invalid URL format"]

\* extractHostname of fastCheck and listUpUrls: no throw, the whole string
\* is the host name when neither new URL() nor the pattern gives one
ExtractHostname(u) ==
    IF UrlParses(u) THEN u.host
    ELSE IF FallbackMatches(u) THEN u.host
    ELSE WholeString(u)

(* ----------------------------- statistics ----------------------------- *)

\* Math.sqrt(x), kept as the number it is the root of
Sqrt(x) == [sqrtOf |-> x]

\* calculateStatistics without its early return: the mean and the variance
\* of no sample are 0 / 0 (what C13 rules out)
CalculateStatisticsNoGuard(times) ==
    LET n == Len(times)
        sum == SeqSum(times)
        sq == SeqSum([k \in 1..n |-> (n * times[k] - sum) * (n * times[k] - sum)])
    IN  [min |-> IF n = 0 THEN 0 ELSE SetMin(SeqToSet(times)),
         max |-> IF n = 0 THEN 0 ELSE SetMax(SeqToSet(times)),
         avg |-> Div(sum, n), stddev |-> Sqrt(Div(sq, n * n * n)),
         loss |-> Div(0, 1)]

\* calculateStatistics dividing the squared deviations by count - 1, the
\* sample variance (what C14 rules out)
CalculateStatisticsSample(times) ==
    IF Len(times) = 0
    THEN [min |-> 0, max |-> 0, avg |-> Div(0, 1), stddev |-> Sqrt(Div(0, 1)),
          loss |-> Div(100, 1)]
    ELSE LET n == Len(times)
             sum == SeqSum(times)
             sq == SeqSum([k \in 1..n |-> (n * times[k] - sum) * (n * times[k] - sum)])
         IN  [min |-> SetMin(SeqToSet(times)), max |-> SetMax(SeqToSet(times)),
              avg |-> Div(sum, n), stddev |-> Sqrt(Div(sq, n * n * (n - 1))),
              loss |-> Div(0, 1)]

\* calculateStatistics of list.ts
CalculateStatistics(times) ==
    IF Len(times) = 0
    THEN [min |-> 0, max |-> 0, avg |-> Div(0, 1), stddev |-> Sqrt(Div(0, 1)),
          loss |-> Div(100, 1)]
    ELSE LET n == Len(times)
             sum == SeqSum(times)
             \* sum of (time - avg)^2 = sum of (n*time - sum)^2 / n^2
             sq == SeqSum([k \in 1..n |-> (n * times[k] - sum) * (n * times[k] - sum)])
         IN  [min |-> SetMin(SeqToSet(times)), max |-> SetMax(SeqToSet(times)),
              avg |-> Div(sum, n), stddev |-> Sqrt(Div(sq, n * n * n)),
              loss |-> Div(0, 1)]

(* ------------------------------ probes -------------------------------- *)

\* How an async probe function settles: a value it returns, or a rejection.
\* issued counts the reachability checks (ping probes, fetches that reach
\* the network) the call made.
Fulfilled(v, n) == [state |-> "fulfilled", value |-> v, issued |-> n]
Rejected(n) == [state |-> "rejected", issued |-> n]

\* pingTime without the 'unknown' case (what C9 rules out)
PingTimeReported(reply) == reply.time

\* pingTime of one attempt: result.time, or Date.now() - pingStart
PingTime(reply) == IF reply.known THEN reply.time ELSE reply.dur

\* the loop body with a catch that records time 0 (what C10 rules out)
AttemptRecordNoCatchTime(reply, i, config) ==
    IF reply.kind = "throw"
    THEN [alive |-> FALSE, time |-> 0, attempt |-> i]
    ELSE [alive |-> reply.kind = "alive", time |-> PingTime(reply), attempt |-> i]

\* the loop body numbering its attempts from 0, attempt: i for attempt:
\* i + 1 (what C20 rules out)
AttemptRecordZeroBased(reply, i, config) ==
    IF reply.kind = "throw"
    THEN [alive |-> FALSE, time |-> config.timeout, attempt |-> i - 1]
    ELSE [alive |-> reply.kind = "alive", time |-> PingTime(reply), attempt |-> i - 1]

\* the record one loop iteration of advancedPingUrl pushes to rawPingResults
AttemptRecord(reply, i, config) ==
    IF reply.kind = "throw"
    THEN [alive |-> FALSE, time |-> config.timeout, attempt |-> i]
    ELSE [alive |-> reply.kind = "alive", time |-> PingTime(reply), attempt |-> i]

\* performDnsLookup whose catch returns the shape of a resolved lookup
\* (what C16 rules out)
PerformDnsLookupNoError(hostname, dns) ==
    [ip |-> dns.ip, hostname |-> hostname, resolveTime |-> dns.dur]

\* performDnsLookup of list.ts
PerformDnsLookup(hostname, dns) ==
    IF dns.ok
    THEN [ip |-> dns.ip, hostname |-> hostname, resolveTime |-> dns.dur]
    ELSE [hostname |-> hostname, resolveTime |-> dns.dur, error |-> "ENOTFOUND"]

\* a status without PARTIAL (what C5 rules out)
StatusOfAtLeastOne(successfulPings, attempts) ==
    IF successfulPings > 0 THEN "UP" ELSE "DOWN"

\* the status advancedPingUrl gives successfulPings out of attempts
StatusOf(successfulPings, attempts) ==
    IF successfulPings = attempts THEN "UP"
    ELSE IF successfulPings > 0 THEN "PARTIAL"
    ELSE "DOWN"

\* the value advancedPingUrl returns from its outer catch
AdvancedCaught(entry, config, message) ==
    [url |-> entry.url, name |-> entry.name, type |-> entry.type,
     status |-> "DOWN", attempts |-> config.attempts, successfulPings |-> 0,
     statistics |-> [min |-> 0, max |-> 0, avg |-> Div(0, 1),
                     stddev |-> Sqrt(Div(0, 1)), loss |-> Div(100, 1)],
     dnsInfo |-> [hostname |-> WholeString(entry.url), resolveTime |-> 0],
     totalTime |-> 0, error |-> message, rawPingResults |-> <<>>,
     isHttps |-> FALSE]

\* What the for loop of advancedPingUrl does, in order: attempt k probes the
\* host, and the wait of config.interval that follows it sits inside the
\* try, after the probe: it is reached when the probe returned and the
\* attempt is not the last (i < config.attempts - 1).
AttemptSteps(config, pings) ==
    LET n == config.attempts
        f[k \in 0..n] ==
            IF k = 0 THEN <<>>
            ELSE f[k - 1] \o <<[step |-> "probe", attempt |-> k]>>
                    \o (IF pings[k].kind # "throw" /\ k < n
                        THEN <<[step |-> "wait", ms |-> config.interval]>>
                        ELSE <<>>)
    IN  f[n]

\* the awaits of one advancedPingUrl call, in order
AdvancedSteps(entry, config, net) ==
    IF ExtractHostAndPort(entry.url).threw THEN <<>>
    ELSE (IF config.enableDnsLookup THEN <<[step |-> "dns"]>> ELSE <<>>)
            \o AttemptSteps(config, net.pings)

\* advancedPingUrl of list.ts with the network answering net.dns to the
\* lookup and net.pings[i] to the i-th attempt
AdvancedPingUrl(entry, config, net) ==
    LET hp == ExtractHostAndPort(entry.url)
        n == config.attempts
        raw == [k \in 1..n |-> AttemptRecord(net.pings[k], k, config)]
        \* successfulTimes.push(pingTime) if (result.alive)
        successfulTimes == Filter([k \in 1..n |-> PingTime(net.pings[k])],
                                  [k \in 1..n |-> net.pings[k].kind = "alive"])
        successfulPings == Len(successfulTimes)
        stats == CalculateStatistics(successfulTimes)
        steps == AttemptSteps(config, net.pings)
        waits == Cardinality({j \in 1..Len(steps) : steps[j].step = "wait"})
        probing == SeqSum([k \in 1..n |-> net.pings[k].dur])
    IN  IF hp.threw
        THEN Fulfilled(AdvancedCaught(entry, config, hp.message), 0)
        ELSE Fulfilled(
            [url |-> entry.url, name |-> entry.name, type |-> entry.type,
             status |-> StatusOf(successfulPings, n),
             attempts |-> n, successfulPings |-> successfulPings,
             statistics |-> [stats EXCEPT !.loss = Div((n - successfulPings) * 100, n)],
             dnsInfo |-> IF config.enableDnsLookup
                         THEN PerformDnsLookup(hp.hostname, net.dns)
                         ELSE [hostname |-> hp.hostname, resolveTime |-> 0],
             port |-> hp.port, isHttps |-> hp.isHttps,
             totalTime |-> (IF config.enableDnsLookup THEN net.dns.dur ELSE 0)
                           + probing + waits * config.interval,
             rawPingResults |-> raw], n)

\* quickPing without its catch (what C6 rules out)
QuickPingNoCatch(entry, reply) ==
    IF reply.kind = "throw"
    THEN Rejected(1)
    ELSE Fulfilled([url |-> entry.url, name |-> entry.name,
                    status |-> IF reply.kind = "alive" THEN "UP" ELSE "DOWN",
                    responseTime |-> reply.dur], 1)

\* quickPing of fastCheck: one probe of ExtractHostname(entry.url)
QuickPing(entry, reply) ==
    IF reply.kind = "throw"
    THEN Fulfilled([url |-> entry.url, name |-> entry.name, status |-> "DOWN",
                    responseTime |-> reply.dur], 1)
    ELSE Fulfilled([url |-> entry.url, name |-> entry.name,
                    status |-> IF reply.kind = "alive" THEN "UP" ELSE "DOWN",
                    responseTime |-> reply.dur], 1)

\* checkUrl of listUpUrls: one probe of ExtractHostname(entry.url)
CheckUrl(entry, reply) ==
    IF reply.kind = "throw"
    THEN Fulfilled([url |-> entry.url, name |-> entry.name, isUp |-> FALSE], 1)
    ELSE Fulfilled([url |-> entry.url, name |-> entry.name,
                    isUp |-> reply.kind = "alive"], 1)

\* fetch(entry.url, ...): an address fetch cannot parse makes it reject at
\* once, before any request
Fetch(u, reply) ==
    IF UrlParses(u) THEN reply
    ELSE [kind |-> "invalid", ok |-> FALSE, status |-> 0, dur |-> 0]

FetchRejects(r) == r.kind # "response"

\* the fetch calls of one pingUrl call, in order: HEAD, then GET in the
\* catch of the HEAD call
PingUrlSteps(entry, net) ==
    <<[step |-> "fetch", method |-> "HEAD"]>>
        \o (IF FetchRejects(Fetch(entry.url, net.head))
            THEN <<[step |-> "fetch", method |-> "GET"]>>
            ELSE <<>>)

\* pingUrl without the GET request in the catch of the HEAD request (what
\* C19 rules out)
PingUrlHeadOnly(entry, net) ==
    LET head == Fetch(entry.url, net.head)
        requests == IF UrlParses(entry.url) THEN 1 ELSE 0
    IN  IF FetchRejects(head)
        THEN Fulfilled([url |-> entry.url, name |-> entry.name, type |-> entry.type,
                        status |-> "DOWN", responseTime |-> head.dur,
                        error |-> head.kind], requests)
        ELSE Fulfilled([url |-> entry.url, name |-> entry.name, type |-> entry.type,
                        status |-> IF head.ok THEN "UP" ELSE "DOWN",
                        responseTime |-> head.dur,
                        statusCode |-> head.status], requests)

\* pingUrl of test-ping.ts with the network answering net.head to the HEAD
\* request and net.get to the GET request
PingUrl(entry, net) ==
    LET head == Fetch(entry.url, net.head)
        get == Fetch(entry.url, net.get)
        usesGet == FetchRejects(head)
        response == IF usesGet THEN get ELSE head
        elapsed == head.dur + IF usesGet THEN get.dur ELSE 0
        requests == IF ~UrlParses(entry.url) THEN 0 ELSE IF usesGet THEN 2 ELSE 1
    IN  IF FetchRejects(response)
        THEN Fulfilled([url |-> entry.url, name |-> entry.name, type |-> entry.type,
                        status |-> "DOWN", responseTime |-> elapsed,
                        error |-> response.kind], requests)
        ELSE Fulfilled([url |-> entry.url, name |-> entry.name, type |-> entry.type,
                        status |-> IF response.ok THEN "UP" ELSE "DOWN",
                        responseTime |-> elapsed,
                        statusCode |-> response.status], requests)

(* ------------------------- the run: environment ----------------------- *)

\* How a host behaves during one run.  Each probe function meets the host
\* through its own calls: the ping attempts of advancedPingUrl, the single
\* ping of quickPing and checkUrl, the HEAD and GET requests of pingUrl.
Hosts == {"fast", "slow", "flaky", "silent", "broken"}

HostPing(h, k, timeout) ==
    CASE h = "fast" -> PingAlive(10)
      [] h = "slow" -> PingAlive(20)
      [] h = "flaky" -> IF k = 1 THEN PingAlive(10) ELSE PingTimeout(timeout, 0)
      [] h = "silent" -> PingTimeout(timeout, 1)
      [] h = "broken" -> PingThrow

HostDns(h) == IF h \in {"silent", "broken"} THEN DnsFail ELSE DnsOk

HostHead(h) ==
    CASE h = "fast" -> FetchOk
      [] h = "slow" -> FetchThrow
      [] h = "flaky" -> FetchNotOk
      [] h = "silent" -> FetchTimedOut
      [] h = "broken" -> FetchThrow

HostGet(h) ==
    CASE h = "fast" -> FetchOk
      [] h = "slow" -> FetchOk
      [] h = "flaky" -> FetchNotOk
      [] h = "silent" -> FetchTimedOut
      [] h = "broken" -> FetchThrow

\* the probe function each script maps over its endpoints, meeting host h
Probe(variant, entry, config, h) ==
    CASE variant = "advanced" ->
            AdvancedPingUrl(entry, config,
                [dns |-> HostDns(h),
                 pings |-> [k \in 1..config.attempts |-> HostPing(h, k, config.timeout)]])
      [] variant = "fast" -> QuickPing(entry, HostPing(h, 1, QuickTimeout))
      [] variant = "listup" -> CheckUrl(entry, HostPing(h, 1, QuickTimeout))
      [] variant = "test" -> PingUrl(entry, [head |-> HostHead(h), get |-> HostGet(h)])

(* --------------------------- the run: state --------------------------- *)

VARIABLES
    variant,      \* which script runs: "advanced", "fast", "listup", "test"
    urls,         \* the catalog, require('./bdix-urls.json')
    config,       \* the PingConfig of the advanced run
    pc,           \* where the script is: "init", "loop", "await", "delay",
                  \* "done", or "failed" (its promise rejected)
    uniqueUrls,   \* the endpoints to probe (testUrls in testPing)
    i,            \* the loop index, 0-based
    batch,        \* the endpoints whose probes were started together
    slots,        \* the promises Promise.all waits for, one per batch entry
    hosts,        \* the host behaviour each settled probe of the batch met
    finished,     \* the batch's probes in the order they settled
    results,      \* results, in the order pushed
    probed,       \* every settled probe so far: [entry, host, settled]
    inflight,     \* the probes started and not yet settled: <<batch no, k>>
    batches,      \* the batches dispatched so far, in order
    delays,       \* how many inter-batch delays have elapsed
    report,       \* what the script reports at its end
    call,         \* one call of a probe function: [fn, entry, config, net]
    settled,      \* how that call settled, Pending before
    timeline      \* what that call awaited, in order

runVars == <<variant, urls, config, pc, uniqueUrls, i, batch, slots, hosts, finished,
             results, probed, inflight, batches, delays, report>>

callVars == <<call, settled, timeline>>

vars == <<runVars, callVars>>

Variants == {"advanced", "fast", "listup", "test"}

Pending == [state |-> "pending"]

NoReport == [made |-> FALSE]

NoCall == [fn |-> "none"]

\* a script starts
RunInit ==
    /\ variant \in Variants
    /\ urls \in Catalogs
    /\ config \in {Config(RunAttempts, b) : b \in 1..MaxBatchSize}
    /\ variant # "advanced" => config.batchSize = 1
    /\ pc = "init"
    /\ uniqueUrls = <<>>
    /\ i = 0
    /\ batch = <<>>
    /\ slots = <<>>
    /\ hosts = <<>>
    /\ finished = <<>>
    /\ results = <<>>
    /\ probed = <<>>
    /\ inflight = {}
    /\ batches = <<>>
    /\ delays = 0
    /\ report = NoReport
    /\ call = NoCall
    /\ settled = Pending
    /\ timeline = <<>>

(* -------------------------- the run: actions -------------------------- *)

\* how many endpoints one pass of the script starts together: a batch in
\* runAdvancedPingTest, every endpoint in the one Promise.all of fastCheck
\* and listUpUrls, one in the for loop of testPing
Step ==
    CASE variant = "advanced" -> config.batchSize
      [] variant \in {"fast", "listup"} -> IF Len(uniqueUrls) > 0 THEN Len(uniqueUrls) ELSE 1
      [] variant = "test" -> 1

\* loading and deduplicating the catalog
Load ==
    /\ pc = "init"
    /\ uniqueUrls' = IF variant = "test" THEN Slice(urls, 0, TestLimit)
                     ELSE Dedupe(variant, urls)
    /\ pc' = "loop"
    /\ UNCHANGED <<variant, urls, config, i, batch, slots, hosts, finished, results,
                   probed, inflight, batches, delays, report,
                   callVars>>

\* batch.map(entry => probe(entry)): every probe of the batch is started
Dispatch ==
    /\ pc = "loop"
    /\ i < Len(uniqueUrls)
    /\ LET b == Slice(uniqueUrls, i, i + Step)
       IN  /\ batch' = b
           /\ slots' = [k \in 1..Len(b) |-> Pending]
           /\ hosts' = [k \in 1..Len(b) |-> "none"]
           /\ finished' = <<>>
           /\ inflight' = inflight \cup {<<Len(batches) + 1, k>> : k \in 1..Len(b)}
           /\ batches' = Append(batches, b)
    /\ pc' = "await"
    /\ UNCHANGED <<variant, urls, config, uniqueUrls, i, results, probed,
                   delays, report,
                   callVars>>

\* one probe settles; a rejection rejects Promise.all and with it the run
Settle(k) ==
    /\ pc = "await"
    /\ slots[k] = Pending
    /\ \E h \in Hosts :
        LET p == Probe(variant, batch[k], config, h)
        IN  /\ slots' = [slots EXCEPT ![k] = p]
            /\ hosts' = [hosts EXCEPT ![k] = h]
            /\ finished' = Append(finished, k)
            /\ pc' = IF p.state = "rejected" THEN "failed" ELSE pc
    /\ inflight' = inflight \ {<<Len(batches), k>>}
    /\ UNCHANGED <<variant, urls, config, uniqueUrls, i, batch, results,
                   probed, batches, delays, report,
                   callVars>>

\* await Promise.all(...) returns once every promise of the batch is fulfilled
Joined(s) == \A k \in 1..Len(s) : s[k].state = "fulfilled"

\* a loop without the inter-batch delay (what C4 rules out)
NeedsDelayNever(idx, size, n) == FALSE

\* if (i + config.batchSize < uniqueUrls.length): a delay follows the batch
NeedsDelay(idx, size, n) == idx + size < n

\* a loop whose index goes up by one whatever the batch size (what C18
\* rules out)
NextIndexByOne(idx, size) == idx + 1

\* i += config.batchSize: the index of the next batch
NextIndex(idx, size) == idx + size

\* the array a promise list resolves to, had each value been pushed as
\* its probe settled (what C17 rules out)
BatchResultsAsSettled(promises, order) ==
    [k \in 1..Len(promises) |-> promises[order[k]].value]

\* the array Promise.all resolves to: the value of the k-th promise at
\* index k, in whatever order the promises settled
BatchResults(promises, order) ==
    [k \in 1..Len(promises) |-> promises[k].value]

\* results.push(...batchResults) and the end of the loop body
Collect ==
    /\ pc = "await"
    /\ Joined(slots)
    /\ results' = results \o BatchResults(slots, finished)
    /\ probed' = probed \o [k \in 1..Len(slots) |->
                    [entry |-> batch[k], host |-> hosts[k], settled |-> slots[k]]]
    /\ IF variant = "advanced" /\ NeedsDelay(i, config.batchSize, Len(uniqueUrls))
       THEN pc' = "delay" /\ i' = i
       ELSE pc' = "loop" /\ i' = NextIndex(i, Step)
    /\ UNCHANGED <<variant, urls, config, uniqueUrls, batch, slots, hosts, finished,
                   inflight, batches, delays, report,
                   callVars>>

\* the setTimeout of 1000 ms between two batches fires
Delay ==
    /\ pc = "delay"
    /\ delays' = delays + 1
    /\ i' = NextIndex(i, Step)
    /\ pc' = "loop"
    /\ UNCHANGED <<variant, urls, config, uniqueUrls, batch, slots, hosts, finished,
                   results, probed, inflight, batches, report,
                   callVars>>

(* --------------------------- the run: report -------------------------- *)

\* Array.prototype.sort(compare), a stable sort, as an insertion sort: x
\* goes before the first element that compares greater than it.
\* cmp[a][b] is compare(a, b) for the elements a, b of s.
InsertSorted(sorted, x, cmp) ==
    LET after == {j \in 1..Len(sorted) : cmp[sorted[j]][x] > 0}
        at == IF after = {} THEN Len(sorted) + 1 ELSE SetMin(after)
    IN  [j \in 1..(Len(sorted) + 1) |->
            IF j < at THEN sorted[j] ELSE IF j = at THEN x ELSE sorted[j - 1]]

Sort(s, cmp) ==
    LET f[k \in 0..Len(s)] ==
            IF k = 0 THEN <<>> ELSE InsertSorted(f[k - 1], s[k], cmp)
    IN f[Len(s)]

\* the sign of x - y for two numbers with positive denominators
RatCompare(x, y) ==
    IF x.num * y.den < y.num * x.den THEN -1
    ELSE IF x.num * y.den > y.num * x.den THEN 1 ELSE 0

\* a comparator that looks at the average alone (what C15 rules out)
CompareResultsByAvg(a, b) == RatCompare(a.statistics.avg, b.statistics.avg)

\* the comparator of results.sort in runAdvancedPingTest
CompareResults(a, b) ==
    IF a.status = "UP" /\ b.status # "UP" THEN -1
    ELSE IF a.status # "UP" /\ b.status = "UP" THEN 1
    ELSE IF a.status = "UP" /\ b.status = "UP"
         THEN RatCompare(a.statistics.avg, b.statistics.avg)
    ELSE 0

\* the comparator of upSites.sort in fastCheck
CompareResponseTime(a, b) == a.responseTime - b.responseTime

\* (a / n) * 100
Percent(a, n) == Div(a * 100, n)

\* x.toFixed(1), read back as a number: tenths, rounded half up; NaN stays NaN
ToFixed1(x) ==
    IF x.den = 0 THEN [nan |-> TRUE, tenths |-> 0]
    ELSE [nan |-> FALSE, tenths |-> (2 * 10 * x.num + x.den) \div (2 * x.den)]

\* results.filter(r => r.status === status)
WithStatus(rs, status) == Filter(rs, [k \in 1..Len(rs) |-> rs[k].status = status])

\* the rate generateDetailedReport prints: a PARTIAL result counts half
AdvancedReport(rs) ==
    LET up == Len(WithStatus(rs, "UP"))
        partial == Len(WithStatus(rs, "PARTIAL"))
    IN  [made |-> TRUE, total |-> Len(rs), up |-> up, partial |-> partial,
         down |-> Len(WithStatus(rs, "DOWN")),
         \* (up + partial * 0.5) / length * 100
         successRate |-> ToFixed1(Div((2 * up + partial) * 100, 2 * Len(rs)))]

\* simpleOutput of fastCheck
FastReport(rs) ==
    LET ups == WithStatus(rs, "UP")
        upSites == Sort(ups, [a \in SeqToSet(ups) |-> [b \in SeqToSet(ups) |->
                                CompareResponseTime(a, b)]])
        downSites == WithStatus(rs, "DOWN")
    IN  [made |-> TRUE, total |-> Len(rs), up |-> Len(upSites),
         down |-> Len(downSites),
         successRate |-> ToFixed1(Percent(Len(upSites), Len(rs))),
         upSites |-> [k \in 1..Len(upSites) |->
                        [url |-> upSites[k].url, time |-> upSites[k].responseTime]],
         downSites |-> [k \in 1..Len(downSites) |-> downSites[k].url]]

\* detailedList of listUpUrls
ListUpReport(rs, unique) ==
    LET upUrls == Filter(rs, [k \in 1..Len(rs) |-> rs[k].isUp])
    IN  [made |-> TRUE, total |-> Len(unique), up |-> Len(upUrls),
         successRate |-> ToFixed1(Percent(Len(upUrls), Len(unique))),
         working_urls |-> [k \in 1..Len(upUrls) |->
                        [url |-> upUrls[k].url, name |-> upUrls[k].name]]]

\* the summary testPing prints
TestReport(rs) ==
    LET upCount == Len(WithStatus(rs, "UP"))
    IN  [made |-> TRUE, total |-> Len(rs), up |-> upCount,
         down |-> Len(WithStatus(rs, "DOWN")),
         successRate |-> ToFixed1(Percent(upCount, Len(rs)))]

\* the end of the script, after the last probe: sorting and reporting
Finish ==
    /\ pc = "loop"
    /\ i >= Len(uniqueUrls)
    /\ results' = IF variant = "advanced"
                  THEN Sort(results, [a \in SeqToSet(results) |->
                                [b \in SeqToSet(results) |-> CompareResults(a, b)]])
                  ELSE results
    /\ report' = CASE variant = "advanced" -> AdvancedReport(results')
                   [] variant = "fast" -> FastReport(results)
                   [] variant = "listup" -> ListUpReport(results, uniqueUrls)
                   [] variant = "test" -> TestReport(results)
    /\ pc' = "done"
    /\ UNCHANGED <<variant, urls, config, uniqueUrls, i, batch, slots, hosts, finished,
                   probed, inflight, batches, delays,
                   callVars>>

(* ---------------------- one call of a probe function ------------------- *)

\* largest config.attempts of a single advancedPingUrl call explored
MaxAttempts == 5

ProbeEntries == {EntryA, EntryS, EntryE, EntryD}

\* everything one ping.promise.probe call can answer under a timeout
PingReplies(timeout) ==
    {PingAlive(10), PingAlive(20), PingAliveNoTime, PingDead,
     PingTimeout(timeout, 0), PingThrow}

FetchReplies == {FetchOk, FetchNotOk, FetchThrow, FetchTimedOut}

\* the advancedPingUrl calls with n attempts
AdvancedCalls(n) ==
    {[fn |-> "advancedPingUrl", entry |-> e, config |-> Config(n, 1),
      net |-> [dns |-> d, pings |-> ps]] :
        e \in ProbeEntries, d \in {DnsOk, DnsFail},
        ps \in [1..n -> PingReplies(AdvTimeout)]}

PingCalls ==
    {[fn |-> f, entry |-> e, net |-> [ping |-> r]] :
        f \in {"quickPing", "checkUrl"}, e \in ProbeEntries,
        r \in PingReplies(QuickTimeout)}

FetchCalls ==
    {[fn |-> "pingUrl", entry |-> e, net |-> [head |-> h, get |-> g]] :
        e \in ProbeEntries, h \in FetchReplies, g \in FetchReplies}

\* longest array of latency samples handed to calculateStatistics
MaxSamples == 3

\* the latencies a sample is drawn from, milliseconds
SampleTimes == {10, 20, 30}

\* the calculateStatistics calls
StatisticsCalls ==
    {[fn |-> "calculateStatistics", times |-> t] :
        t \in SeqsUpTo(SampleTimes, MaxSamples)}

\* the run's variables while a single call is studied
RunIdle ==
    /\ variant = "none"
    /\ urls = <<>>
    /\ config = Config(RunAttempts, 1)
    /\ pc = "idle"
    /\ uniqueUrls = <<>>
    /\ i = 0
    /\ batch = <<>>
    /\ slots = <<>>
    /\ hosts = <<>>
    /\ finished = <<>>
    /\ results = <<>>
    /\ probed = <<>>
    /\ inflight = {}
    /\ batches = <<>>
    /\ delays = 0
    /\ report = NoReport

CallInit ==
    /\ RunIdle
    /\ \/ \E n \in 1..MaxAttempts : call \in AdvancedCalls(n)
       \/ call \in PingCalls \cup FetchCalls \cup StatisticsCalls
    /\ settled = Pending
    /\ timeline = <<>>

\* the call runs to its end
Call ==
    /\ settled = Pending
    /\ call.fn # "none"
    /\ settled' = CASE call.fn = "advancedPingUrl" ->
                        AdvancedPingUrl(call.entry, call.config, call.net)
                    [] call.fn = "quickPing" -> QuickPing(call.entry, call.net.ping)
                    [] call.fn = "checkUrl" -> CheckUrl(call.entry, call.net.ping)
                    [] call.fn = "pingUrl" -> PingUrl(call.entry, call.net)
                    [] call.fn = "calculateStatistics" ->
                        Fulfilled(CalculateStatistics(call.times), 0)
    /\ timeline' = CASE call.fn = "advancedPingUrl" ->
                        AdvancedSteps(call.entry, call.config, call.net)
                     [] call.fn \in {"quickPing", "checkUrl"} ->
                        <<[step |-> "probe", attempt |-> 1]>>
                     [] call.fn = "pingUrl" -> PingUrlSteps(call.entry, call.net)
                     [] call.fn = "calculateStatistics" -> <<>>
    /\ UNCHANGED <<runVars, call>>

(* --------------------------- specification ---------------------------- *)

\* Either one of the four scripts runs over a catalog, or one probe
\* function is called once with one answer of the network.
Init == RunInit \/ CallInit

\* the steps of a script
RunNext ==
    \/ Load
    \/ Dispatch
    \/ \E k \in 1..Len(slots) : Settle(k)
    \/ Collect
    \/ Delay
    \/ Finish

Next ==
    \/ RunNext
    \/ Call

Spec == Init /\ [][Next]_vars

\* longest catalog of the runs followed to their end
MaxFairCatalog == 2

\* a script starts over a catalog of at most MaxFairCatalog entries, each
\* one of A, B (the address of A again) and C
FairInit ==
    /\ RunInit
    /\ Len(urls) <= MaxFairCatalog
    /\ SeqToSet(urls) \subseteq {EntryA, EntryB, EntryC}

\* Every await of a script resumes: a probe returns (each is bounded by
\* its own timeout), a timer fires, and the event loop runs the
\* continuation that is ready.
Fairness == WF_vars(RunNext)

\* the scripts, run to their end
FairSpec == FairInit /\ [][RunNext]_vars /\ Fairness


(* ------------------------------- claims ------------------------------- *)

\* the scripts that deduplicate the catalog
Deduplicating == {"advanced", "fast", "listup"}

Loaded == pc \in {"loop", "await", "delay", "done", "failed"}

\* the places of the first occurrences of the catalog's urls, ascending
FirstPlaces(c) == {k \in 1..Len(c) : \A j \in 1..(k - 1) : c[j].url # c[k].url}

\* the m-th smallest element of a set of numbers
NthOf(S, m) == CHOOSE k \in S : Cardinality({j \in S : j <= k}) = m

\* C1: in every deduplicating script the deduplicated sequence is the
\* subsequence of first occurrences of the catalog: one entry per distinct
\* url, in first-seen order, and the entry kept is the first one carrying
\* the url, with its own name and type.
C1_KeepsFirstOccurrence ==
    (variant \in Deduplicating /\ Loaded) =>
        /\ Len(uniqueUrls) = Cardinality(FirstPlaces(urls))
        /\ \A m \in 1..Len(uniqueUrls) :
              uniqueUrls[m] = urls[NthOf(FirstPlaces(urls), m)]

\* C2: deduplication is idempotent and non-expanding: the dedupe step of
\* the script applied to its own output returns that output, the output is
\* no longer than the catalog, and an empty catalog gives an empty output.
C2_DedupeIdempotent ==
    (variant \in Deduplicating /\ Loaded) =>
        /\ Dedupe(variant, uniqueUrls) = uniqueUrls
        /\ Len(uniqueUrls) <= Len(urls)
        /\ (urls = <<>> => uniqueUrls = <<>>)

\* a catalog with a repeated url has been deduplicated by the Map of the
\* advanced script and by the filter of the fast one, two entries remaining
C2_Witness ==
    /\ variant \in {"advanced", "fast"}
    /\ Loaded
    /\ Len(urls) = 3
    /\ Len(uniqueUrls) = 2
    /\ urls[1].url = urls[3].url

\* the batches dispatched so far, one after another
Flatten(bs) ==
    LET f[k \in 0..Len(bs)] == IF k = 0 THEN <<>> ELSE f[k - 1] \o bs[k]
    IN f[Len(bs)]

CeilDiv(n, b) == (n + b - 1) \div b

IsPrefix(s, t) == Len(s) <= Len(t) /\ \A k \in 1..Len(s) : s[k] = t[k]

\* C3: for N unique endpoints and batch size B >= 1 the advanced run
\* issues exactly ceil(N/B) batches, each of 1..B endpoints, and the
\* batches, in order, partition the deduplicated sequence (no batch when
\* N = 0).
C3_BatchesPartition ==
    variant = "advanced" =>
        /\ \A b \in 1..Len(batches) :
              Len(batches[b]) >= 1 /\ Len(batches[b]) <= config.batchSize
        /\ IsPrefix(Flatten(batches), uniqueUrls)
        /\ pc = "done" =>
              /\ Len(batches) = CeilDiv(Len(uniqueUrls), config.batchSize)
              /\ Flatten(batches) = uniqueUrls

\* three unique endpoints with batch size 2 were probed in two batches,
\* the second one short
C3_Witness ==
    /\ variant = "advanced"
    /\ pc = "done"
    /\ config.batchSize = 2
    /\ Len(uniqueUrls) = 3
    /\ Len(batches) = 2
    /\ Len(batches[2]) = 1

\* C4: in the advanced run the batches are sequential with a join barrier:
\* the probes in flight all belong to the batch dispatched last and are at
\* most batchSize many, and while a batch is in flight the results of all
\* earlier batches are gathered and one delay has elapsed after each of
\* them; between two batches no probe is in flight.
C4_BatchesSequential ==
    variant = "advanced" =>
        /\ \A p \in inflight : p[1] = Len(batches)
        /\ Cardinality(inflight) <= config.batchSize
        /\ pc \in {"loop", "delay", "done"} => inflight = {}
        /\ pc = "await" =>
              /\ delays = Len(batches) - 1
              /\ Len(results) = i
              /\ \A k \in 1..i : results[k].url = uniqueUrls[k].url

\* the second batch is in flight after a first batch of two concurrent
\* probes was gathered and the delay elapsed
C4_Witness ==
    /\ variant = "advanced"
    /\ pc = "await"
    /\ Len(batches) = 2
    /\ Len(batches[1]) = 2
    /\ inflight # {}
    /\ delays = 1

\* a single advancedPingUrl call has returned
AdvancedReturned == call.fn = "advancedPingUrl" /\ settled # Pending

AliveCount(pings) == Cardinality({k \in 1..Len(pings) : pings[k].kind = "alive"})

\* what C5 says of one result v of advancedPingUrl
C5_Classified(v) ==
    LET a == v.attempts
        s == v.successfulPings
    IN  /\ v.status = "UP" <=> s = a
        /\ v.status = "PARTIAL" <=> (0 < s /\ s < a)
        /\ v.status = "DOWN" <=> s = 0
        /\ v.statistics.loss.den # 0
        /\ v.statistics.loss.num * a = (a - s) * 100 * v.statistics.loss.den

\* C5: a result of advancedPingUrl with A attempts of which s succeeded
\* has status UP exactly when s = A, PARTIAL exactly when 0 < s < A, DOWN
\* exactly when s = 0, and loss = ((A - s) / A) * 100; s is the number of
\* attempts that found the host alive.
C5_StatusAndLoss ==
    /\ AdvancedReturned =>
          /\ settled.state = "fulfilled"
          /\ C5_Classified(settled.value)
          /\ settled.value.attempts = call.config.attempts
          /\ settled.value.successfulPings =
                IF ExtractHostAndPort(call.entry.url).threw THEN 0
                ELSE AliveCount(call.net.pings)
    /\ variant = "advanced" => \A k \in 1..Len(results) : C5_Classified(results[k])

\* 3 of 5 attempts succeeded: PARTIAL with loss 40
C5_Witness ==
    /\ AdvancedReturned
    /\ settled.value.attempts = 5
    /\ settled.value.successfulPings = 3
    /\ settled.value.status = "PARTIAL"
    /\ RatIs(settled.value.statistics.loss, 40)

\* C6: every probe function returns a value whatever the network does
\* (timeout, DNS failure, thrown transport error, malformed address) and
\* never rejects; so no Promise.all of a run rejects, and the outcome
\* recorded for an endpoint is the one its own probe computed from its own
\* host, whatever happened to the other endpoints.
C6_ProbesNeverReject ==
    /\ settled # Pending => settled.state = "fulfilled"
    /\ pc # "failed"
    /\ \A k \in 1..Len(slots) :
          slots[k] # Pending =>
              /\ slots[k].state = "fulfilled"
              /\ slots[k] = Probe(variant, batch[k], config, hosts[k])
    /\ \A k \in 1..Len(probed) :
          /\ probed[k].settled.state = "fulfilled"
          /\ probed[k].settled =
                Probe(variant, probed[k].entry, config, probed[k].host)

\* a fast run ended with one endpoint whose ping threw recorded DOWN and
\* another endpoint recorded UP
C6_Witness ==
    /\ variant = "fast"
    /\ pc = "done"
    /\ \E j, k \in 1..Len(probed) :
          /\ probed[j].host = "broken"
          /\ probed[j].settled.value.status = "DOWN"
          /\ probed[k].settled.value.status = "UP"

\* neither new URL() nor the fallback pattern gives a host
Unparseable(u) == ~UrlParses(u) /\ ~FallbackMatches(u)

\* the settled probes of the state: those of the run, and the single call
Outcomes ==
    {[fn |-> variant, entry |-> probed[k].entry, settled |-> probed[k].settled] :
        k \in 1..Len(probed)}
    \cup (IF settled # Pending /\ call.fn # "calculateStatistics"
          THEN {[fn |-> CASE call.fn = "advancedPingUrl" -> "advanced"
                          [] call.fn = "quickPing" -> "fast"
                          [] call.fn = "checkUrl" -> "listup"
                          [] call.fn = "pingUrl" -> "test",
                 entry |-> call.entry, settled |-> settled]}
          ELSE {})

\* the outcome reports the endpoint unreachable
Unreachable(o) ==
    IF o.fn = "listup" THEN ~o.settled.value.isUp
    ELSE o.settled.value.status = "DOWN"

\* C7 as stated: in every variant an endpoint whose address neither parses
\* nor matches the fallback pattern is reported unreachable with a
\* descriptive error and no reachability check is issued for it.
C7_Original ==
    \A o \in Outcomes :
        Unparseable(o.entry.url) =>
            /\ o.settled.state = "fulfilled"
            /\ Unreachable(o)
            /\ "error" \in DOMAIN o.settled.value
            /\ o.settled.issued = 0

\* C7 as amended: advancedPingUrl and pingUrl report such an endpoint DOWN
\* with an error and issue no check; quickPing and checkUrl hand the whole
\* address string to ping as the host name, issue one check and report
\* what it answers, with no error field; in every variant the run goes on
\* and ends with one result per endpoint.
C7_UnparseableAddress ==
    /\ \A o \in Outcomes :
          Unparseable(o.entry.url) =>
              /\ o.settled.state = "fulfilled"
              /\ o.fn \in {"advanced", "test"} =>
                    /\ o.settled.value.status = "DOWN"
                    /\ "error" \in DOMAIN o.settled.value
                    /\ o.settled.issued = 0
              /\ o.fn = "advanced" =>
                    /\ o.settled.value.error = "Invalid URL format"
                    /\ o.settled.value.rawPingResults = <<>>
              /\ o.fn \in {"fast", "listup"} =>
                    /\ o.settled.issued = 1
                    /\ "error" \notin DOMAIN o.settled.value
    /\ \A k \in 1..Len(probed) :
          (variant \in {"fast", "listup"} /\ Unparseable(probed[k].entry.url)) =>
              (~Unreachable([fn |-> variant, settled |-> probed[k].settled])
                  <=> HostPing(probed[k].host, 1, QuickTimeout).kind = "alive")
    /\ pc # "failed"
    /\ pc = "done" => Len(results) = Len(uniqueUrls)

\* an advanced run ended with the unparseable endpoint DOWN, unprobed, and
\* another endpoint UP
C7_Witness ==
    /\ variant = "advanced"
    /\ pc = "done"
    /\ \E j, k \in 1..Len(probed) :
          /\ Unparseable(probed[j].entry.url)
          /\ probed[j].settled.value.status = "DOWN"
          /\ probed[j].settled.issued = 0
          /\ probed[k].settled.value.status = "UP"

\* C8: when the endpoint set is empty every reported success rate is 0,
\* not a not-a-number value.
C8_ZeroRateWhenEmpty ==
    (pc = "done" /\ Len(uniqueUrls) = 0) =>
        (~report.successRate.nan /\ report.successRate.tenths = 0)

\* the two requests of the single pingUrl call, as fetch answers them
CallHead == Fetch(call.entry.url, call.net.head)
CallGet == Fetch(call.entry.url, call.net.get)

\* no response arrived to the pingUrl call: the HEAD request was rejected
\* and so was the GET request that followed it
NoResponse == FetchRejects(CallHead) /\ FetchRejects(CallGet)

SeparatedAttempts(n, interval) ==
    [j \in 1..(2 * n - 1) |->
        IF j % 2 = 1 THEN [step |-> "probe", attempt |-> (j + 1) \div 2]
        ELSE [step |-> "wait", ms |-> interval]]

\* the probes and waits of the call, in order
ProbesAndWaits ==
    Filter(timeline, [j \in 1..Len(timeline) |-> timeline[j].step \in {"probe", "wait"}])

\* C11: in advancedPingUrl the config.attempts attempts run one after
\* another, between every two consecutive attempts the delay of
\* config.interval elapses whatever the earlier attempt ended as (alive,
\* not alive, thrown), and no delay follows the last attempt.
C11_DelayBetweenAttempts ==
    (AdvancedReturned /\ ~ExtractHostAndPort(call.entry.url).threw) =>
        ProbesAndWaits = SeparatedAttempts(call.config.attempts, call.config.interval)

\* how many different addresses the catalog holds
DistinctUrls(c) == Cardinality({c[k].url : k \in 1..Len(c)})

\* how many of the probed endpoints were given the status
ProbedWithStatus(status) ==
    Cardinality({k \in 1..Len(probed) :
        IF variant = "listup"
        THEN probed[k].settled.value.isUp = (status = "UP")
        ELSE probed[k].settled.value.status = status})

\* C12 as stated: in every deduplicating script the reported success rate
\* is (endpoints classified reachable) / (deduplicated endpoints) * 100;
\* reachable read as UP, or as UP or PARTIAL, and the rate compared at the
\* one decimal the scripts report.
C12_Original ==
    (pc = "done" /\ variant \in Deduplicating /\ Len(uniqueUrls) > 0) =>
        \/ report.successRate =
              ToFixed1(Percent(ProbedWithStatus("UP"), Len(uniqueUrls)))
        \/ report.successRate =
              ToFixed1(Percent(ProbedWithStatus("UP") + ProbedWithStatus("PARTIAL"),
                               Len(uniqueUrls)))

\* C12 as amended: the denominator of the reported rate is the number of
\* deduplicated endpoints probed, which is the number of different
\* addresses of the catalog and not the catalog's size; fastCheck and
\* listUpUrls report (UP count) / that number * 100, the advanced report
\* (UP count + half the PARTIAL count) / that number * 100, each rounded to
\* one decimal (and not a number when there is no endpoint).
C12_SuccessRate ==
    (pc = "done" /\ variant \in Deduplicating) =>
        LET n == DistinctUrls(urls)
            up == ProbedWithStatus("UP")
            partial == ProbedWithStatus("PARTIAL")
        IN  /\ Len(probed) = n
            /\ report.total = n
            /\ report.successRate =
                  IF variant = "advanced"
                  THEN ToFixed1(Div((2 * up + partial) * 100, 2 * n))
                  ELSE ToFixed1(Div(up * 100, n))

\* the catalog A, B, C of which A and B share an address was probed by
\* the fast script: two endpoints, one of them UP, rate 50.0
C12_Witness ==
    /\ variant = "fast"
    /\ pc = "done"
    /\ urls = <<EntryA, EntryB, EntryC>>
    /\ Len(probed) = 2
    /\ report.up = 1
    /\ report.successRate = [nan |-> FALSE, tenths |-> 500]

\* the statistics of no sample: min = max = avg = stddev = 0, loss = 100
ZeroStatistics(st) ==
    /\ st.min = 0
    /\ st.max = 0
    /\ RatIs(st.avg, 0)
    /\ RatIs(st.stddev.sqrtOf, 0)
    /\ RatIs(st.loss, 100)

\* C13: calculateStatistics of no successful sample is min = max = avg =
\* stddev = 0 with loss = 100, and the result of an endpoint none of whose
\* attempts found the host alive carries exactly these statistics.
C13_EmptyStatistics ==
    /\ AdvancedReturned =>
          /\ AliveCount(call.net.pings) = 0 =>
                /\ settled.value.successfulPings = 0
                /\ ZeroStatistics(settled.value.statistics)
          /\ settled.value.successfulPings = 0 =>
                ZeroStatistics(settled.value.statistics)
    /\ variant = "advanced" =>
          \A k \in 1..Len(results) :
              results[k].successfulPings = 0 => ZeroStatistics(results[k].statistics)

\* an advancedPingUrl call of three attempts returned for a parseable
\* address, one attempt timed out, one found the host dead and one threw
C13_Witness ==
    /\ AdvancedReturned
    /\ ~ExtractHostAndPort(call.entry.url).threw
    /\ call.config.attempts = 3
    /\ {call.net.pings[k].kind : k \in 1..3} = {"timeout", "dead", "throw"}
    /\ settled.value.status = "DOWN"
    /\ Len(settled.value.rawPingResults) = 3

\* a calculateStatistics call has returned
StatisticsReturned == call.fn = "calculateStatistics" /\ settled # Pending

SumOfSquares(times) == SeqSum([k \in 1..Len(times) |-> times[k] * times[k]])

\* C14: for a non-empty array of samples calculateStatistics returns the
\* smallest sample as min, the largest as max, sum / count as avg, and as
\* stddev the square root of the population variance, which is the mean of
\* the squares less the square of the mean: (n * sum of t^2 - (sum of
\* t)^2) / n^2; for [10, 20, 30]: min 10, max 30, avg 20, variance 200/3.
C14_Statistics ==
    (StatisticsReturned /\ Len(call.times) > 0) =>
        LET times == call.times
            n == Len(times)
            sum == SeqSum(times)
            st == settled.value
            variance == st.stddev.sqrtOf
        IN  /\ st.min \in SeqToSet(times) /\ \A k \in 1..n : st.min <= times[k]
            /\ st.max \in SeqToSet(times) /\ \A k \in 1..n : st.max >= times[k]
            /\ st.avg.den # 0 /\ st.avg.num * n = sum * st.avg.den
            /\ variance.den # 0
            /\ variance.num * n * n =
                  (n * SumOfSquares(times) - sum * sum) * variance.den
            /\ times = <<10, 20, 30>> =>
                  /\ st.min = 10 /\ st.max = 30 /\ RatIs(st.avg, 20)
                  /\ variance.num * 3 = 200 * variance.den

\* calculateStatistics([10, 20, 30]) has returned
C14_Witness ==
    /\ StatisticsReturned
    /\ call.times = <<10, 20, 30>>
    /\ settled.value.min = 10
    /\ settled.value.max = 30

\* the results in the order they were collected
Collected == [k \in 1..Len(probed) |-> probed[k].settled.value]

\* s is a rearrangement of t
IsPermutation(s, t) ==
    /\ Len(s) = Len(t)
    /\ \A x \in SeqToSet(s) \cup SeqToSet(t) :
          Cardinality({k \in 1..Len(s) : s[k] = x})
              = Cardinality({k \in 1..Len(t) : t[k] = x})

\* C15: the reachable endpoints are reported in non-decreasing order of
\* latency: upSites of the fast summary holds the UP results in ascending
\* responseTime, and the final results of the advanced run are the
\* collected results rearranged so that every UP result comes before every
\* result that is not UP and the UP results are in non-decreasing
\* statistics.avg.
C15_SortedByLatency ==
    /\ (variant = "fast" /\ pc = "done") =>
          /\ \A j, k \in 1..Len(report.upSites) :
                j < k => report.upSites[j].time <= report.upSites[k].time
          /\ IsPermutation(report.upSites,
                [k \in 1..Len(WithStatus(results, "UP")) |->
                    [url |-> WithStatus(results, "UP")[k].url,
                     time |-> WithStatus(results, "UP")[k].responseTime]])
    /\ (variant = "advanced" /\ pc = "done") =>
          /\ IsPermutation(results, Collected)
          /\ \A j, k \in 1..Len(results) :
                j < k =>
                    /\ results[k].status = "UP" => results[j].status = "UP"
                    /\ (results[j].status = "UP" /\ results[k].status = "UP") =>
                          RatCompare(results[j].statistics.avg,
                                     results[k].statistics.avg) <= 0

\* an advanced run ended whose first collected result was not UP and whose
\* last collected was the fastest: the final order is fastest, slower, rest
C15_Witness ==
    /\ variant = "advanced"
    /\ pc = "done"
    /\ Len(results) = 3
    /\ Collected[1].status # "UP"
    /\ results[1] = Collected[3]
    /\ results[2] = Collected[2]
    /\ results[3] = Collected[1]
    /\ RatCompare(results[1].statistics.avg, results[2].statistics.avg) < 0

\* the fields of a PingResult the DNS lookup has no part in
WithoutDns(v) == [f \in DOMAIN v \ {"dnsInfo", "totalTime"} |-> v[f]]

\* C16: in advancedPingUrl a failed DNS lookup is recorded in dnsInfo, as
\* an error and a resolve time with no ip, and changes nothing else: all
\* config.attempts attempts are made, the status is the one the attempts
\* alone give, no error is set on the result, and but for dnsInfo and
\* totalTime the result is the one a resolved lookup would have given.
C16_DnsIndependent ==
    (AdvancedReturned /\ ~ExtractHostAndPort(call.entry.url).threw
        /\ call.config.enableDnsLookup /\ ~call.net.dns.ok) =>
        LET v == settled.value
            n == call.config.attempts
            alive == AliveCount(call.net.pings)
        IN  /\ DOMAIN v.dnsInfo = {"hostname", "resolveTime", "error"}
            /\ v.dnsInfo.resolveTime = call.net.dns.dur
            /\ Len(v.rawPingResults) = n
            /\ Cardinality({j \in 1..Len(timeline) : timeline[j].step = "probe"}) = n
            /\ settled.issued = n
            /\ v.successfulPings = alive
            /\ v.status = "UP" <=> alive = n
            /\ v.status = "DOWN" <=> alive = 0
            /\ "error" \notin DOMAIN v
            /\ WithoutDns(v) =
                  WithoutDns(AdvancedPingUrl(call.entry, call.config,
                                [call.net EXCEPT !.dns = DnsOk]).value)

\* an advancedPingUrl call returned UP from three alive attempts although
\* its DNS lookup failed
C16_Witness ==
    /\ AdvancedReturned
    /\ ~call.net.dns.ok
    /\ call.config.attempts = 3
    /\ AliveCount(call.net.pings) = 3
    /\ settled.value.status = "UP"
    /\ "error" \in DOMAIN settled.value.dnsInfo

\* C17: whatever the order in which the probes of a batch (advanced) or of
\* the one all-endpoints batch (fast, list-up) settle, the results are
\* read only once every probe of the batch has settled, and the collected
\* sequence holds at position i the result of the i-th endpoint, computed
\* from the host that endpoint met: while a batch is awaited the results
\* hold the earlier batches only, and once it is gathered they hold every
\* dispatched endpoint in endpoint order.
C17_ResultsInEndpointOrder ==
    variant \in Deduplicating =>
        /\ pc = "await" =>
              /\ Len(results) = Len(Flatten(batches)) - Len(batch)
              /\ Len(probed) = Len(results)
        /\ pc \in {"loop", "delay", "done"} =>
              /\ Len(results) = Len(Flatten(batches))
              /\ Len(probed) = Len(results)
              /\ Joined(slots)
        /\ \A k \in 1..Len(probed) :
              /\ probed[k].entry = uniqueUrls[k]
              /\ Collected[k].url = uniqueUrls[k].url
              /\ Collected[k] =
                    Probe(variant, uniqueUrls[k], config, probed[k].host).value
        /\ (variant # "advanced" \/ pc # "done") => results = Collected

\* the fast script gathered three results in endpoint order although the
\* third probe settled first and the first one last, the three endpoints
\* having met different hosts
C17_Witness ==
    /\ variant = "fast"
    /\ pc = "loop"
    /\ finished = <<3, 2, 1>>
    /\ Len(results) = 3
    /\ \A k \in 1..3 : results[k].url = uniqueUrls[k].url
    /\ Cardinality({probed[k].host : k \in 1..3}) = 3

\* C18: provided every probe returns, every run terminates, and when it
\* has, there is exactly one result per endpoint to probe (per distinct
\* address of the catalog in the deduplicating scripts): every endpoint
\* was dispatched, in one batch only, and probed once.
C18_TerminatesWithOneResultEach ==
    /\ (pc = "init") ~> (pc = "done")
    /\ [](pc = "done" =>
            /\ Len(results) = Len(uniqueUrls)
            /\ Flatten(batches) = uniqueUrls
            /\ [k \in 1..Len(probed) |-> probed[k].entry] = uniqueUrls
            /\ \A k \in 1..Len(uniqueUrls) :
                  Cardinality({j \in 1..Len(results) :
                      results[j].url = uniqueUrls[k].url})
                  = Cardinality({j \in 1..Len(uniqueUrls) :
                      uniqueUrls[j].url = uniqueUrls[k].url})
            /\ variant \in Deduplicating => Len(results) = DistinctUrls(urls)
            /\ inflight = {}
            /\ ~ENABLED RunNext)

\* an advanced run over two endpoints has ended after two batches, both
\* endpoints found DOWN
C18_Witness ==
    /\ variant = "advanced"
    /\ pc = "done"
    /\ Len(uniqueUrls) = 2
    /\ Len(batches) = 2
    /\ Len(WithStatus(results, "DOWN")) = 2
    /\ Len(probed) = 2

\* a single pingUrl call has returned
PingUrlReturned == call.fn = "pingUrl" /\ settled # Pending

\* C19: pingUrl always calls fetch with HEAD first, calls it with GET
\* exactly when the HEAD call failed (was rejected: transport error,
\* timeout, address fetch cannot parse), makes no third call, and reports
\* UP exactly when the call whose response it uses (GET if made, else HEAD)
\* brought a response with an ok status; when both calls fail it reports
\* DOWN with an error, and a request reaches the network only for an
\* address fetch can parse.
C19_HeadThenGet ==
    PingUrlReturned =>
        LET v == settled.value
            used == IF FetchRejects(CallHead) THEN CallGet ELSE CallHead
        IN  /\ Len(timeline) \in {1, 2}
            /\ timeline[1] = [step |-> "fetch", method |-> "HEAD"]
            /\ Len(timeline) = 2 <=> FetchRejects(CallHead)
            /\ Len(timeline) = 2 => timeline[2] = [step |-> "fetch", method |-> "GET"]
            /\ settled.issued <= Len(timeline)
            /\ settled.issued = IF UrlParses(call.entry.url) THEN Len(timeline) ELSE 0
            /\ v.status = "UP" <=> (used.kind = "response" /\ used.ok)
            /\ v.status \in {"UP", "DOWN"}
            /\ NoResponse => (v.status = "DOWN" /\ "error" \in DOMAIN v)

\* a pingUrl call returned UP from its GET request after its HEAD request
\* was rejected
C19_Witness ==
    /\ PingUrlReturned
    /\ call.net.head.kind = "throw"
    /\ call.net.get.ok
    /\ UrlParses(call.entry.url)
    /\ Len(timeline) = 2
    /\ settled.value.status = "UP"

\* the times of the entries of rawPingResults with alive = true, in order
AliveTimes(raw) ==
    Filter([k \in 1..Len(raw) |-> raw[k].time], [k \in 1..Len(raw) |-> raw[k].alive])

\* successfulPings counts the alive entries, lies in 0..attempts, and min,
\* max and avg are those of the times of the alive entries (0 when none)
CountsAndStatisticsAgree(v) ==
    LET t == AliveTimes(v.rawPingResults)
    IN  /\ v.successfulPings = Len(t)
        /\ 0 <= v.successfulPings /\ v.successfulPings <= v.attempts
        /\ IF Len(t) = 0
           THEN v.statistics.min = 0 /\ v.statistics.max = 0
                    /\ RatIs(v.statistics.avg, 0)
           ELSE /\ v.statistics.min = SetMin(SeqToSet(t))
                /\ v.statistics.max = SetMax(SeqToSet(t))
                /\ v.statistics.avg.den # 0
                /\ v.statistics.avg.num * Len(t) = SeqSum(t) * v.statistics.avg.den

\* rawPingResults has attempts entries, numbered 1..attempts in order
OneEntryPerAttempt(v) ==
    /\ Len(v.rawPingResults) = v.attempts
    /\ \A k \in 1..Len(v.rawPingResults) : v.rawPingResults[k].attempt = k

\* C20 as stated: on every return path of advancedPingUrl, the one for an
\* invalid address included, rawPingResults has exactly attempts entries
\* numbered 1..attempts in increasing order, successfulPings is the number
\* of alive entries and lies in 0..attempts, and min, max and avg are
\* computed from the times of the alive entries only.
C20_Original ==
    AdvancedReturned =>
        /\ OneEntryPerAttempt(settled.value)
        /\ CountsAndStatisticsAgree(settled.value)

\* C20 as amended: a PingResult returned after the attempts loop has
\* exactly attempts entries in rawPingResults, numbered 1..attempts in
\* increasing order; the PingResult returned for an invalid address has an
\* empty rawPingResults while its attempts is still config.attempts; on
\* both paths attempts = config.attempts, successfulPings is the number of
\* alive entries and lies in 0..attempts, and min, max and avg are those
\* of the times of the alive entries (0 when there is none).
C20_ResultConsistent ==
    /\ AdvancedReturned =>
          /\ settled.value.attempts = call.config.attempts
          /\ CountsAndStatisticsAgree(settled.value)
          /\ IF ExtractHostAndPort(call.entry.url).threw
             THEN settled.value.rawPingResults = <<>>
             ELSE OneEntryPerAttempt(settled.value)
    /\ variant = "advanced" =>
          \A k \in 1..Len(results) :
              /\ results[k].attempts = config.attempts
              /\ CountsAndStatisticsAgree(results[k])
              /\ IF Unparseable(results[k].url)
                 THEN results[k].rawPingResults = <<>>
                 ELSE OneEntryPerAttempt(results[k])

\* an advanced run ended with one result returned from the outer catch
\* for an invalid address (no entry, attempts 3) and one PARTIAL result
\* with three entries of which one is alive
C20_Witness ==
    /\ variant = "advanced"
    /\ pc = "done"
    /\ \E k \in 1..Len(results) :
          /\ Unparseable(results[k].url)
          /\ results[k].attempts = RunAttempts
          /\ results[k].rawPingResults = <<>>
    /\ \E k \in 1..Len(results) :
          /\ results[k].status = "PARTIAL"
          /\ Len(results[k].rawPingResults) = RunAttempts
          /\ results[k].successfulPings = 1

=============================================================================
